---- MODULE Spec2Model ----
(***************************************************************************)
(* Sector-ETF correlation scripts.                                         *)
(*                                                                         *)
(*   market_indices_correlation_matrix.py : purge, fetch, build the price  *)
(*       table, compute each view, write returns and correlation CSVs      *)
(*   analyze_sector_correlation.py        : rank the pairs of a matrix     *)
(*   plot_sector_correlation.py           : one heatmap per CSV            *)
(*                                                                         *)
(* Numbers.  Prices are positive integers.  A return is kept in percent,   *)
(* so pct_change of 1 -> 2 is 100 and of 2 -> 1 is -50; the price sets     *)
(* used make every such quotient exact.  A correlation read from a CSV is  *)
(* kept in hundredths (1.0 is 100).  NaN is one value outside both ranges. *)
(*                                                                         *)
(* Calendar.  Dates are day numbers 1, 2, 3, ...; a month has two trading  *)
(* days and a quarter three months (MonthOf, QuarterOf).                   *)
(*                                                                         *)
(* Library behaviour is that of pandas 1.x / 2.x: pct_change() pads by     *)
(* default, resample("M") is accepted, nsmallest / nlargest append the NaN *)
(* rows after the valued ones and refuse a column of dtype object.  Where  *)
(* the library sorts with an unstable algorithm the order of equal values  *)
(* is a free choice.                                                       *)
(***************************************************************************)
EXTENDS Integers, Sequences, FiniteSets

VARIABLES
    \* market_indices_correlation_matrix.py, main()
    pc,         \* position in main: purge, fetch, build, views, done, crashed
    dir,        \* the file names in CSV_DIR
    removed,    \* the names os.remove was called on
    k,          \* index into SECTORS of the next symbol to fetch
    prices,     \* dict sym -> Series
    log,        \* logging records emitted by the fetch loop
    df_prices,  \* the price table
    v,          \* index into VIEWS of the next view
    df_view,    \* the view table of the last iteration
    corr,       \* the correlation matrix of the last iteration
    \* compute_view called on its own
    cv_pc, cv_df, cv_view, cv_result,
    \* analyze_sector_correlation.py, main()
    rk_pc,      \* position in main: flatten, select, print, done, TypeError
    matrix, topN, pairs, least, most,
    \* plot_sector_correlation.py, main()
    pl_pc, csv_files, pl_i, images, stderr, exit_code

runVars  == <<pc, dir, removed, k, prices, log, df_prices, v, df_view, corr>>
viewVars == <<cv_pc, cv_df, cv_view, cv_result>>
rankVars == <<rk_pc, matrix, topN, pairs, least, most>>
plotVars == <<pl_pc, csv_files, pl_i, images, stderr, exit_code>>
vars     == <<runVars, viewVars, rankVars, plotVars>>

----------------------------------------------------------------------------
(* Bounds of the model *)

MaxDate == 3       \* the price source knows the dates 1..MaxDate
MaxRows == 7       \* rows of a price table handed to compute_view directly
MaxTickers == 3    \* size of a matrix handed to the ranking
MaxTopN == 4       \* largest TOP_N tried
MaxFiles == 3      \* CSV files found by the plot script
MaxDim == 2        \* rows and columns of a loaded CSV

Prices == {1, 2}

(* Program constants *)

SECTORS == <<"SPY", "XLK", "XLF">>
VIEWS == <<"daily", "monthly", "quarterly", "yoy", "volatility", "rolling">>
WINDOW_DAYS == 5
TOP_N == 5
YOY_PERIODS == 252

NaN == -1000

Max(S) == CHOOSE x \in S : \A y \in S : y <= x
Min(S) == CHOOSE x \in S : \A y \in S : x <= y
MinOf(a, b) == IF a <= b THEN a ELSE b

RECURSIVE SortedSeq(_)
SortedSeq(S) ==
    IF S = {} THEN <<>>
    ELSE LET m == Min(S) IN <<m>> \o SortedSeq(S \ {m})

RECURSIVE SumOver(_, _)
SumOver(S, f) ==
    IF S = {} THEN 0
    ELSE LET x == CHOOSE y \in S : TRUE IN f[x] + SumOver(S \ {x}, f)

----------------------------------------------------------------------------
(* DataFrames: cols (column labels in order), index (row labels in order), *)
(* data (one row per index entry, a function from column label to value).  *)

EmptyFrame == [cols |-> <<>>, index |-> <<>>, data |-> <<>>]

ColSet(f) == {f.cols[i] : i \in 1..Len(f.cols)}
NRows(f) == Len(f.index)

(* the rows of f at the positions listed in keep, in that order *)
TakeRows(f, keep) ==
    [cols  |-> f.cols,
     index |-> [j \in 1..Len(keep) |-> f.index[keep[j]]],
     data  |-> [j \in 1..Len(keep) |-> f.data[keep[j]]]]

RowComplete(f, i) == \A c \in ColSet(f) : f.data[i][c] # NaN
RowHasValue(f, i) == \E c \in ColSet(f) : f.data[i][c] # NaN

(* DataFrame.dropna(): drop every row holding a NaN in any column          *)
(* (DropNaIdentity: the call left out)                                     *)
DropNaIdentity(f) == f
DropNa(f) == TakeRows(f, SortedSeq({i \in 1..NRows(f) : RowComplete(f, i)}))

(* DataFrame.dropna(how="all"): drop the rows that are NaN in every column *)
DropNaAll(f) == TakeRows(f, SortedSeq({i \in 1..NRows(f) : RowHasValue(f, i)}))

(* DataFrame.sort_index(): rows in ascending order of their label *)
SortIndex(f) ==
    LET labels == SortedSeq({f.index[i] : i \in 1..NRows(f)})
        pos(d) == CHOOSE i \in 1..NRows(f) : f.index[i] = d
    IN TakeRows(f, [j \in 1..Len(labels) |-> pos(labels[j])])

(* DataFrame.tail(n): the last n rows *)
TailRows(f, n) ==
    LET first == IF NRows(f) > n THEN NRows(f) - n + 1 ELSE 1
    IN TakeRows(f, [j \in 1..(NRows(f) - first + 1) |-> first + j - 1])

(* DataFrame.abs() *)
Abs(f) ==
    [f EXCEPT !.data = [i \in 1..NRows(f) |-> [c \in ColSet(f) |->
        LET x == f.data[i][c]
        IN IF x = NaN THEN NaN ELSE IF x < 0 THEN 0 - x ELSE x]]]

(* forward fill: each NaN takes the last value above it in its column *)
FFill(f) ==
    [f EXCEPT !.data = [i \in 1..NRows(f) |-> [c \in ColSet(f) |->
        LET K == {j \in 1..i : f.data[j][c] # NaN}
        IN IF K = {} THEN NaN ELSE f.data[Max(K)][c]]]]

(* cur / prev - 1, in percent *)
Pct(cur, prev) ==
    IF cur = NaN \/ prev = NaN THEN NaN ELSE (100 * cur) \div prev - 100

(* DataFrame.pct_change(periods, fill_method): pad is the default          *)
(* fill_method ("pad"), no pad is fill_method=None                         *)
PctChange(f, periods, pad) ==
    LET g == IF pad THEN FFill(f) ELSE f
    IN [g EXCEPT !.data = [i \in 1..NRows(g) |-> [c \in ColSet(g) |->
        IF i <= periods THEN NaN
        ELSE Pct(g.data[i][c], g.data[i - periods][c])]]]

MonthOf(d) == (d + 1) \div 2
QuarterOf(d) == (MonthOf(d) + 2) \div 3
PeriodOf(d, rule) == IF rule = "M" THEN MonthOf(d) ELSE QuarterOf(d)
PeriodEnd(p, rule) == IF rule = "M" THEN 2 * p ELSE 6 * p

(* DataFrame.resample(rule).last(): one row per calendar period from the   *)
(* first row's period to the last row's, labelled by the period's end,     *)
(* holding each column's last non-NaN value in the period                  *)
ResampleLast(f, rule) ==
    IF NRows(f) = 0 THEN f
    ELSE LET lo == PeriodOf(f.index[1], rule)
             hi == PeriodOf(f.index[NRows(f)], rule)
             cell(p, c) ==
                 LET K == {i \in 1..NRows(f) :
                              PeriodOf(f.index[i], rule) = p /\ f.data[i][c] # NaN}
                 IN IF K = {} THEN NaN ELSE f.data[Max(K)][c]
         IN [cols  |-> f.cols,
             index |-> [j \in 1..(hi - lo + 1) |-> PeriodEnd(lo + j - 1, rule)],
             data  |-> [j \in 1..(hi - lo + 1) |->
                           [c \in ColSet(f) |-> cell(lo + j - 1, c)]]]

----------------------------------------------------------------------------
(* compute_view *)

KnownViews == {"daily", "monthly", "quarterly", "yoy", "volatility", "rolling"}

(* what each branch computes before its dropna() *)
Transform(df, view) ==
    CASE view = "daily"      -> PctChange(df, 1, FALSE)
      [] view = "monthly"    -> PctChange(ResampleLast(df, "M"), 1, TRUE)
      [] view = "quarterly"  -> PctChange(ResampleLast(df, "Q"), 1, TRUE)
      [] view = "yoy"        -> PctChange(df, YOY_PERIODS, TRUE)
      [] view = "volatility" -> Abs(PctChange(df, 1, FALSE))
      [] view = "rolling"    -> PctChange(df, 1, FALSE)

(* the table a branch returns *)
ViewTable(df, view) ==
    IF view = "rolling" THEN TailRows(DropNa(Transform(df, view)), WINDOW_DAYS)
    ELSE DropNa(Transform(df, view))

compute_view(df, view) ==
    IF view \in KnownViews
    THEN [status |-> "ok", frame |-> ViewTable(df, view)]
    ELSE [status |-> "ValueError", frame |-> EmptyFrame]

----------------------------------------------------------------------------
(* DataFrame.corr(): pairwise Pearson correlation *)

(* the rows that enter the correlation of columns a and b: those where      *)
(* both hold a value                                                       *)
PairRows(f, a, b) ==
    {i \in 1..NRows(f) : f.data[i][a] # NaN /\ f.data[i][b] # NaN}

PairDates(f, a, b) == {f.index[i] : i \in PairRows(f, a, b)}

CorrNaN == [nan |-> TRUE, num |-> 0, den2 |-> 0]

(* r = num / sqrt(den2), NaN when no row enters or a variance is zero *)
Pearson(f, a, b) ==
    LET R   == PairRows(f, a, b)
        n   == Cardinality(R)
        x   == [i \in R |-> f.data[i][a]]
        y   == [i \in R |-> f.data[i][b]]
        sx  == SumOver(R, x)
        sy  == SumOver(R, y)
        sxy == SumOver(R, [i \in R |-> x[i] * y[i]])
        sxx == SumOver(R, [i \in R |-> x[i] * x[i]])
        syy == SumOver(R, [i \in R |-> y[i] * y[i]])
        dx  == n * sxx - sx * sx
        dy  == n * syy - sy * sy
    IN IF n = 0 \/ dx * dy = 0 THEN CorrNaN
       ELSE [nan |-> FALSE, num |-> n * sxy - sx * sy, den2 |-> dx * dy]

Corr(f) == [cols |-> f.cols,
            m |-> [p \in ColSet(f) \X ColSet(f) |-> Pearson(f, p[1], p[2])]]

NoCorr == [cols |-> <<>>, m |-> <<>>]

----------------------------------------------------------------------------
(* market_indices_correlation_matrix.py *)

ReturnsCsv(view) == [stem |-> <<"sector_etf", view, "returns">>, ext |-> "csv"]
CorrCsv(view) == [stem |-> <<"sector_etf", "correlation", view>>, ext |-> "csv"]

NotesTxt == [stem |-> <<"notes">>, ext |-> "txt"]
StaleCsvs == {ReturnsCsv("annual"), CorrCsv("daily")}

(* fname.endswith(".csv") *)
EndsWithCsv(fname) == fname.ext = "csv"

(* the files the purge loop removes (PurgeCorrelationOnly: a purge that     *)
(* only matches the correlation files)                                     *)
PurgeCorrelationOnly(d) ==
    {f \in d : EndsWithCsv(f) /\ Len(f.stem) = 3 /\ f.stem[2] = "correlation"}
PurgeTargets(d) == {f \in d : EndsWithCsv(f)}

(* what the price source may answer for one symbol: an exception, or a      *)
(* date-indexed Close series from some first date to MaxDate (empty when   *)
(* the source has no row)                                                  *)
SeriesSet == UNION {[lo..MaxDate -> Prices] : lo \in 1..(MaxDate + 1)}
Responses == {[kind |-> "raise", series |-> <<>>]}
             \cup {[kind |-> "series", series |-> s] : s \in SeriesSet}

(* pd.DataFrame(prices): the columns are the dict's keys in insertion      *)
(* order, the index the sorted union of the series' dates                  *)
DataFrame(p) ==
    LET has(s) == s \in DOMAIN p
        cols   == SelectSeq(SECTORS, has)
        index  == SortedSeq(UNION {DOMAIN p[s] : s \in DOMAIN p})
    IN [cols  |-> cols,
        index |-> index,
        data  |-> [i \in 1..Len(index) |-> [c \in DOMAIN p |->
                      IF index[i] \in DOMAIN p[c] THEN p[c][index[i]] ELSE NaN]]]

InitRun ==
    /\ pc = "purge"
    /\ dir \in {{NotesTxt}, {NotesTxt} \cup StaleCsvs}
    /\ removed = {}
    /\ k = 1
    /\ prices = <<>>
    /\ log = <<>>
    /\ df_prices = EmptyFrame
    /\ v = 1
    /\ df_view = EmptyFrame
    /\ corr = NoCorr

IdleRun ==
    /\ pc = "idle"
    /\ dir = {}
    /\ removed = {}
    /\ k = 1
    /\ prices = <<>>
    /\ log = <<>>
    /\ df_prices = EmptyFrame
    /\ v = 1
    /\ df_view = EmptyFrame
    /\ corr = NoCorr

(* main, step 1: remove every *.csv of CSV_DIR *)
Purge ==
    /\ pc = "purge"
    /\ removed' = PurgeTargets(dir)
    /\ dir' = dir \ PurgeTargets(dir)
    /\ pc' = "fetch"
    /\ UNCHANGED <<k, prices, log, df_prices, v, df_view, corr>>
    /\ UNCHANGED <<viewVars, rankVars, plotVars>>

(* main, step 2, one iteration: fetch_close(sym) inside try/except *)
Fetch ==
    /\ pc = "fetch"
    /\ k <= Len(SECTORS)
    /\ \E r \in Responses :
          LET sym == SECTORS[k]
              info == [level |-> "INFO", sym |-> sym]
          IN IF r.kind = "raise"
             THEN /\ log' = log \o <<info, [level |-> "ERROR", sym |-> sym]>>
                  /\ prices' = prices
             ELSE /\ log' = Append(log, info)
                  /\ prices' = [s \in DOMAIN prices \cup {sym} |->
                                   IF s = sym THEN r.series ELSE prices[s]]
    /\ k' = k + 1
    /\ UNCHANGED <<pc, dir, removed, df_prices, v, df_view, corr>>
    /\ UNCHANGED <<viewVars, rankVars, plotVars>>

(* main, lines 93-99: build the table, then log its first and last date.   *)
(* With no column the index is empty and not a date index: its min() is    *)
(* nan and nan.date() raises AttributeError.  With columns and no row the  *)
(* index is empty too; whether its min() is NaT (a date index, and the run *)
(* goes on) or nan depends on the index type the source gave its empty     *)
(* series, so both outcomes are allowed.                                   *)
BuildTable ==
    /\ pc = "fetch"
    /\ k > Len(SECTORS)
    /\ df_prices' = SortIndex(DropNaAll(DataFrame(prices)))
    /\ pc' \in IF Len(df_prices'.cols) = 0 THEN {"crashed"}
              ELSE IF NRows(df_prices') = 0 THEN {"crashed", "views"}
              ELSE {"views"}
    /\ UNCHANGED <<dir, removed, k, prices, log, v, df_view, corr>>
    /\ UNCHANGED <<viewVars, rankVars, plotVars>>

(* main, step 3, one iteration of the loop over VIEWS *)
ProcessView ==
    /\ pc = "views"
    /\ v <= Len(VIEWS)
    /\ df_view' = compute_view(df_prices, VIEWS[v]).frame
    /\ corr' = Corr(df_view')
    /\ dir' = dir \cup {ReturnsCsv(VIEWS[v]), CorrCsv(VIEWS[v])}
    /\ v' = v + 1
    /\ UNCHANGED <<pc, removed, k, prices, log, df_prices>>
    /\ UNCHANGED <<viewVars, rankVars, plotVars>>

(* main returns *)
Return ==
    /\ pc = "views"
    /\ v > Len(VIEWS)
    /\ pc' = "done"
    /\ UNCHANGED <<dir, removed, k, prices, log, df_prices, v, df_view, corr>>
    /\ UNCHANGED <<viewVars, rankVars, plotVars>>

IdleView == cv_pc = "idle" /\ cv_df = EmptyFrame /\ cv_view = "" /\ cv_result = <<>>
IdleRank == rk_pc = "idle" /\ matrix = <<>> /\ topN = 0 /\ pairs = <<>>
            /\ least = <<>> /\ most = <<>>
IdlePlot == pl_pc = "idle" /\ csv_files = <<>> /\ pl_i = 1 /\ images = {}
            /\ stderr = <<>> /\ exit_code = 0

Init == InitRun /\ IdleView /\ IdleRank /\ IdlePlot
Next == Purge \/ Fetch \/ BuildTable \/ ProcessView \/ Return
Spec == Init /\ [][Next]_vars

----------------------------------------------------------------------------
(* compute_view called with any view name on a one-column price table *)

ViewNames == KnownViews \cup {"annual", "weekly"}

PriceTable(col) ==
    [cols  |-> <<"SPY">>,
     index |-> [i \in 1..Len(col) |-> i],
     data  |-> [i \in 1..Len(col) |-> [c \in {"SPY"} |-> col[i]]]]

PriceTables == {PriceTable(col) : col \in UNION {[1..n -> Prices] : n \in 0..MaxRows}}

InitView ==
    /\ cv_pc = "call"
    /\ cv_df \in PriceTables
    /\ cv_view = ""
    /\ cv_result = <<>>

CallComputeView ==
    /\ cv_pc = "call"
    /\ \E view \in ViewNames :
          /\ cv_view' = view
          /\ cv_result' = compute_view(cv_df, view)
          /\ cv_pc' = IF cv_result'.status = "ok" THEN "returned" ELSE "raised"
    /\ UNCHANGED cv_df
    /\ UNCHANGED <<runVars, rankVars, plotVars>>

NextView == CallComputeView
InitSpecView == IdleRun /\ InitView /\ IdleRank /\ IdlePlot
SpecView == InitSpecView /\ [][NextView]_vars

----------------------------------------------------------------------------
(* analyze_sector_correlation.py, main(), lines 18-42 *)

TickerNames == <<"XLK", "XLF", "XLE", "XLI", "XLP">>
CorrValues == {-50, 0, 50, NaN}

UpperCells(n) == {c \in (1..n) \X (1..n) : c[1] < c[2]}

(* a symmetric n x n matrix with 1.0 on the diagonal; n = 1 is the matrix  *)
(* of a single symbol, which has no pair                                   *)
MatrixOf(n, upper) ==
    [tickers |-> SubSeq(TickerNames, 1, n),
     m |-> [c \in (1..n) \X (1..n) |->
              IF c[1] = c[2] THEN 100
              ELSE IF c[1] < c[2] THEN upper[c] ELSE upper[<<c[2], c[1]>>]]]

Matrices ==
    UNION {{MatrixOf(n, upper) : upper \in [UpperCells(n) -> CorrValues]} :
              n \in 1..MaxTickers}

PairRow(mx, i, j, idx) ==
    [idx |-> idx, i |-> i, j |-> j,
     Sector1 |-> mx.tickers[i], Sector2 |-> mx.tickers[j],
     Correlation |-> mx.m[<<i, j>>]]

(* the cells the two loops append, in the order they append them, given     *)
(* the set of cells the `continue` lets through                            *)
RECURSIVE CellsInOrder(_, _, _, _)
CellsInOrder(n, i, j, kept) ==
    IF i > n THEN <<>>
    ELSE IF j > n THEN CellsInOrder(n, i + 1, 1, kept)
    ELSE (IF <<i, j>> \in kept THEN << <<i, j>> >> ELSE <<>>)
         \o CellsInOrder(n, i, j + 1, kept)

RowsOf(mx, cells) ==
    [x \in 1..Len(cells) |-> PairRow(mx, cells[x][1], cells[x][2], x - 1)]

(* step 2: the upper triangle without the diagonal, as df_pairs *)
UpperTriangle(mx) ==
    LET n == Len(mx.tickers)
    IN RowsOf(mx, CellsInOrder(n, 1, 1, {c \in (1..n) \X (1..n) : ~(c[2] <= c[1])}))

(* positions of df in ascending order of sign * Correlation, equal values   *)
(* in their order in df (a stable argsort), over the positions in I        *)
RECURSIVE StableArgsort(_, _, _)
StableArgsort(df, I, sign) ==
    IF I = {} THEN <<>>
    ELSE LET key(x) == sign * df[x].Correlation
             m == CHOOSE x \in I : \A y \in I :
                     key(x) < key(y) \/ (key(x) = key(y) /\ x <= y)
         IN <<m>> \o StableArgsort(df, I \ {m}, sign)

FirstRows(s, n) == SubSeq(s, 1, MinOf(n, Len(s)))

(* Series.sort_values() with the default kind="quicksort": the orders of   *)
(* the positions in I that are ascending in sign * Correlation; positions  *)
(* of equal value come in any order                                        *)
RECURSIVE SortValues(_, _, _)
SortValues(df, I, sign) ==
    IF I = {} THEN {<<>>}
    ELSE LET key(x) == sign * df[x].Correlation
             firsts == {x \in I : \A y \in I : key(x) <= key(y)}
         IN UNION {{<<m>> \o s : s \in SortValues(df, I \ {m}, sign)} : m \in firsts}

(* the dtype pd.DataFrame(pairs, columns=...) gives the Correlation        *)
(* column: a list of tuples of floats gives float64, the empty list object *)
Dtype(df) == IF Len(df) = 0 THEN "object" ELSE "float64"

(* DataFrame.nsmallest / nlargest on the Correlation column, keep="first", *)
(* as the set of results the call can give.  With n below the number of    *)
(* rows: the values that are not NaN in stable ascending (descending)      *)
(* order, then the NaN rows in their order, cut to the first n.  With n at *)
(* least the number of rows: sort_values(ascending).head(n), which sorts   *)
(* with quicksort and puts the NaN rows last.                              *)
SelectN(df, n, sign) ==
    IF n <= 0 THEN {<<>>}
    ELSE LET valued == {x \in 1..Len(df) : df[x].Correlation # NaN}
             nans   == {x \in 1..Len(df) : df[x].Correlation = NaN}
             orders == IF n >= Len(df) THEN SortValues(df, valued, sign)
                       ELSE {StableArgsort(df, valued, sign)}
             rows(o) == LET order == FirstRows(o \o SortedSeq(nans), n)
                        IN [x \in 1..Len(order) |-> df[order[x]]]
         IN {rows(o) : o \in orders}

nsmallest(df, n) == SelectN(df, n, 1)

(* nlargest_tail_of_ascending: the last n rows of the stable ascending     *)
(* order, reversed                                                         *)
nlargest_tail_of_ascending(df, n) ==
    LET valued == {x \in 1..Len(df) : df[x].Correlation # NaN}
        nans   == {x \in 1..Len(df) : df[x].Correlation = NaN}
        asc    == StableArgsort(df, valued, 1) \o SortedSeq(nans)
        len    == MinOf(n, Len(asc))
    IN {[x \in 1..len |-> df[asc[Len(asc) - x + 1]]]}

nlargest(df, n) == SelectN(df, n, -1)

InitRank ==
    /\ rk_pc = "flatten"
    /\ matrix \in Matrices
    /\ topN \in (1..MaxTopN) \cup {TOP_N}
    /\ pairs = <<>>
    /\ least = <<>>
    /\ most = <<>>

(* main, step 2 *)
Flatten ==
    /\ rk_pc = "flatten"
    /\ pairs' = UpperTriangle(matrix)
    /\ rk_pc' = "select"
    /\ UNCHANGED <<matrix, topN, least, most>>
    /\ UNCHANGED <<runVars, viewVars, plotVars>>

(* main, step 3: nsmallest raises TypeError on a column of dtype object,    *)
(* and main ends there                                                     *)
Select ==
    /\ rk_pc = "select"
    /\ IF Dtype(pairs) = "object"
       THEN /\ rk_pc' = "TypeError"
            /\ UNCHANGED <<least, most>>
       ELSE /\ least' \in nsmallest(pairs, topN)
            /\ most' \in nlargest(pairs, topN)
            /\ rk_pc' = "print"
    /\ UNCHANGED <<matrix, topN, pairs>>
    /\ UNCHANGED <<runVars, viewVars, plotVars>>

(* main, step 4 *)
PrintLists ==
    /\ rk_pc = "print"
    /\ rk_pc' = "done"
    /\ UNCHANGED <<matrix, topN, pairs, least, most>>
    /\ UNCHANGED <<runVars, viewVars, plotVars>>

NextRank == Flatten \/ Select \/ PrintLists
InitSpecRank == IdleRun /\ IdleView /\ InitRank /\ IdlePlot
SpecRank == InitSpecRank /\ [][NextRank]_vars

----------------------------------------------------------------------------
(* plot_sector_correlation.py *)

(* a CSV found by glob: its stem and the shape read_csv gives it *)
Shapes == [rows : 1..MaxDim, cols : 1..MaxDim]
CsvLists == UNION {[1..n -> Shapes] : n \in 0..MaxFiles}

Stem(i) == <<"matrix", i>>

(* process_csv: a matrix that is not square is reported on stderr and      *)
(* skipped; a square one is plotted and saved as <stem>.png                *)
(* (process_csv_no_check: the shape test left out)                         *)
process_csv_no_check(i, shape, st) ==
    [st EXCEPT !.images = st.images \cup {Stem(i)}]

process_csv(i, shape, st) ==
    IF shape.rows # shape.cols
    THEN [st EXCEPT !.stderr = Append(st.stderr, [msg |-> "Skipping", file |-> Stem(i)])]
    ELSE [st EXCEPT !.images = st.images \cup {Stem(i)}]

InitPlot ==
    /\ pl_pc = "glob"
    /\ csv_files \in CsvLists
    /\ pl_i = 1
    /\ images = {}
    /\ stderr = <<>>
    /\ exit_code = 0

(* main, lines 109-115: no CSV found is reported and ends with status 1 *)
Glob ==
    /\ pl_pc = "glob"
    /\ IF Len(csv_files) = 0
       THEN /\ stderr' = Append(stderr, [msg |-> "No CSV files found", file |-> <<>>])
            /\ exit_code' = 1
            /\ pl_pc' = "exited"
       ELSE /\ pl_pc' = "loop"
            /\ UNCHANGED <<stderr, exit_code>>
    /\ UNCHANGED <<csv_files, pl_i, images>>
    /\ UNCHANGED <<runVars, viewVars, rankVars>>

(* main, lines 117-118, one iteration *)
ProcessCsv ==
    /\ pl_pc = "loop"
    /\ pl_i <= Len(csv_files)
    /\ LET st == process_csv(pl_i, csv_files[pl_i], [images |-> images, stderr |-> stderr])
       IN images' = st.images /\ stderr' = st.stderr
    /\ pl_i' = pl_i + 1
    /\ UNCHANGED <<pl_pc, csv_files, exit_code>>
    /\ UNCHANGED <<runVars, viewVars, rankVars>>

(* main returns: the script ends with status 0 *)
PlotReturn ==
    /\ pl_pc = "loop"
    /\ pl_i > Len(csv_files)
    /\ pl_pc' = "exited"
    /\ exit_code' = 0
    /\ UNCHANGED <<csv_files, pl_i, images, stderr>>
    /\ UNCHANGED <<runVars, viewVars, rankVars>>

NextPlot == Glob \/ ProcessCsv \/ PlotReturn
InitSpecPlot == IdleRun /\ IdleView /\ IdleRank /\ InitPlot
SpecPlot == InitSpecPlot /\ [][NextPlot]_vars

----------------------------------------------------------------------------
(* Properties of the run *)

Processed == {SECTORS[i] : i \in 1..(k - 1)}
Usable == {s \in DOMAIN prices : DOMAIN prices[s] # {}}
ErrorCount(s) ==
    Cardinality({i \in 1..Len(log) : log[i] = [level |-> "ERROR", sym |-> s]})
LoopOver == pc \in {"views", "done", "crashed"}
OutputFiles == UNION {{ReturnsCsv(VIEWS[i]), CorrCsv(VIEWS[i])} : i \in 1..Len(VIEWS)}

(* C1: when fewer than 2 symbols were fetched the run fails before any view *)
(* is computed: no view table, no correlation matrix, no output file       *)
(* (stated for the runs in which every fetched series has prices)          *)
C1_NoViewOnInsufficientData ==
    (LoopOver /\ Cardinality(DOMAIN prices) < 2 /\ Usable = DOMAIN prices)
        => (v = 1 /\ pc # "done" /\ dir \cap OutputFiles = {})

(* C2: every failed fetch (exception or empty result) is skipped with      *)
(* exactly one diagnostic, and the price table's columns are exactly the   *)
(* symbols fetched with a non-empty series                                 *)
C2_ColumnsAreUsableSymbols ==
    /\ \A s \in Processed \ Usable : ErrorCount(s) = 1
    /\ \A s \in Usable : ErrorCount(s) = 0
    /\ pc \in {"views", "done"} => ColSet(df_prices) = Usable

LastView == VIEWS[v - 1]
ViewProcessed == pc \in {"views", "done"} /\ v > 1
CompleteDates(raw) == {raw.index[i] : i \in {j \in 1..NRows(raw) : RowComplete(raw, j)}}
LastDates(S, n) == {d \in S : Cardinality({e \in S : e > d}) < n}
KeptDates(raw, view) ==
    IF view = "rolling" THEN LastDates(CompleteDates(raw), WINDOW_DAYS)
    ELSE CompleteDates(raw)
BothDefinedDates(raw, a, b) ==
    {raw.index[i] : i \in {j \in 1..NRows(raw) :
                              raw.data[j][a] # NaN /\ raw.data[j][b] # NaN}}

(* C4 as amended: the rows that enter correlation(A, B) are the rows where  *)
(* every column of the view has a defined return (for rolling, the last    *)
(* WINDOW_DAYS of them); a missing value in a third column removes the row *)
C4_CompleteRowsEnter ==
    ViewProcessed =>
        LET kept == KeptDates(Transform(df_prices, LastView), LastView)
        IN \A a \in ColSet(df_view) : \A b \in ColSet(df_view) :
              PairDates(df_view, a, b) = kept

(* C4 as claimed: the rows that enter correlation(A, B) are exactly the    *)
(* rows where A and B both have a defined return, whatever a third column  *)
(* holds (stated for the runs in which every fetched series has prices)    *)
C4_PairwiseRowsEnter ==
    (ViewProcessed /\ Usable = DOMAIN prices) =>
        LET raw == Transform(df_prices, LastView)
        IN \A a \in ColSet(df_view) : \A b \in ColSet(df_view) \ {a} :
              PairDates(df_view, a, b) = BothDefinedDates(raw, a, b)

(* a view was processed in which some row has returns for two columns and  *)
(* none for a third, while another row is complete                         *)
C4_Witness ==
    /\ ViewProcessed
    /\ NRows(df_view) > 0
    /\ LET raw == Transform(df_prices, LastView)
       IN \E i \in 1..NRows(raw) : \E a, b, c \in ColSet(raw) :
             /\ a # b
             /\ raw.data[i][a] # NaN /\ raw.data[i][b] # NaN /\ raw.data[i][c] = NaN

(* C10: a CSV is deleted only by the purge, before any fetch and any write, *)
(* and a run that completes leaves exactly the returns and the correlation *)
(* CSV of each view in VIEWS                                               *)
C10_PurgeThenExactOutputs ==
    /\ [][(\E f \in dir : EndsWithCsv(f) /\ f \notin dir')
             => (pc = "purge" /\ k = 1 /\ log = <<>> /\ v = 1)]_vars
    /\ [](pc = "done" => {f \in dir : EndsWithCsv(f)} = OutputFiles)

(* a run completed in a directory that held stale CSVs and another file *)
C10_Witness ==
    /\ pc = "done"
    /\ ReturnsCsv("annual") \in removed
    /\ NotesTxt \in dir
    /\ OutputFiles \subseteq dir

----------------------------------------------------------------------------
(* Properties of compute_view *)

SevenViews == {"daily", "monthly", "quarterly", "annual", "yoy", "volatility", "rolling"}
DOC_WINDOW_DAYS == 60

(* C3: compute_view raises the unknown-view error exactly for the names    *)
(* outside the seven view names of the data model (daily, monthly,         *)
(* quarterly, annual, yoy, volatility, rolling), and a call that raises    *)
(* returns no table                                                        *)
C3_UnknownViewIffNotSeven ==
    cv_pc \in {"returned", "raised"} =>
        /\ (cv_result.status = "ValueError") <=> (cv_view \notin SevenViews)
        /\ (cv_pc = "raised") <=> (cv_result.status = "ValueError")
        /\ cv_result.status = "ValueError" => cv_result.frame = EmptyFrame

(* C9: the rolling view is the last min(60, len(daily)) rows of the daily   *)
(* view                                                                    *)
C9_RollingIsLast60OfDaily ==
    (cv_pc = "returned" /\ cv_view = "rolling") =>
        LET daily == compute_view(cv_df, "daily").frame
            n     == MinOf(DOC_WINDOW_DAYS, NRows(daily))
            first == NRows(daily) - n
        IN cv_result.frame =
              [cols  |-> daily.cols,
               index |-> [j \in 1..n |-> daily.index[first + j]],
               data  |-> [j \in 1..n |-> daily.data[first + j]]]

----------------------------------------------------------------------------
(* Properties of the ranking *)

Ranked == rk_pc \in {"print", "done"}
RankEnded == Ranked \/ rk_pc = "TypeError"
NTickers == Len(matrix.tickers)
NPairs == (NTickers * (NTickers - 1)) \div 2
NoNaNInMatrix == \A c \in DOMAIN matrix.m : matrix.m[c] # NaN
Entries(L) == {L[x] : x \in 1..Len(L)}

WellFormedList(L) ==
    /\ Len(L) = MinOf(topN, NPairs)
    /\ \A x \in 1..Len(L) :
          /\ L[x].i \in 1..NTickers /\ L[x].j \in 1..NTickers
          /\ L[x].i < L[x].j
          /\ L[x].Sector1 = matrix.tickers[L[x].i]
          /\ L[x].Sector2 = matrix.tickers[L[x].j]
          /\ L[x].Correlation = matrix.m[<<L[x].i, L[x].j>>]
    /\ \A x, y \in 1..Len(L) : x # y => <<L[x].i, L[x].j>> # <<L[y].i, L[y].j>>

(* C5: on a square matrix over n symbols without NaN, for any topN >= 1,   *)
(* the ranking ends without error, every entry of either list is a pair    *)
(* (i, j) with i < j, no pair occurs twice in a list, and each list has    *)
(* min(topN, n(n-1)/2) entries                                             *)
C5_ListsWellFormed ==
    (RankEnded /\ NoNaNInMatrix) =>
        /\ rk_pc # "TypeError"
        /\ WellFormedList(least) /\ WellFormedList(most)

(* the pairs whose correlation is a number, and the entries of a list that *)
(* hold one, in the order of the list                                      *)
ValuedPairs == {p \in Entries(pairs) : p.Correlation # NaN}
Valued(L) == SelectSeq(L, LAMBDA p : p.Correlation # NaN)

(* L lists the min(topN, number of valued pairs) valued pairs that come    *)
(* first when smaller (sign = 1) or larger (sign = -1) values come first   *)
ExtremeInOrder(L, sign) ==
    LET LV == Valued(L)
    IN /\ Len(LV) = MinOf(topN, Cardinality(ValuedPairs))
       /\ Entries(LV) \subseteq ValuedPairs
       /\ \A x \in 1..(Len(LV) - 1) :
             sign * LV[x].Correlation <= sign * LV[x + 1].Correlation
       /\ \A q \in ValuedPairs \ Entries(LV) : \A p \in Entries(LV) :
             sign * p.Correlation <= sign * q.Correlation

(* pairs of equal value are listed, and selected at the cut, in their      *)
(* enumeration order                                                       *)
TiesInEnumerationOrder(L) ==
    LET LV == Valued(L)
    IN /\ \A x \in 1..(Len(LV) - 1) :
             LV[x].Correlation = LV[x + 1].Correlation => LV[x].idx < LV[x + 1].idx
       /\ \A q \in ValuedPairs \ Entries(LV) : \A p \in Entries(LV) :
             p.Correlation = q.Correlation => p.idx < q.idx

(* C6 as amended: over the pairs whose value is a number, least lists the  *)
(* smallest in ascending order and most the largest in descending order;   *)
(* when topN is below the number of pairs, pairs of equal value keep their *)
(* enumeration order in both lists, so the earliest-enumerated of the      *)
(* pairs tied at the cut are the ones selected                             *)
C6_StableOrderBothLists ==
    Ranked =>
        /\ ExtremeInOrder(least, 1) /\ ExtremeInOrder(most, -1)
        /\ topN < Len(pairs) =>
              (TiesInEnumerationOrder(least) /\ TiesInEnumerationOrder(most))

(* S: the pairs in stable ascending order *)
AscendingS ==
    [r \in 1..Len(pairs) |->
        CHOOSE p \in Entries(pairs) :
            Cardinality({q \in Entries(pairs) :
                            \/ q.Correlation < p.Correlation
                            \/ (q.Correlation = p.Correlation /\ q.idx < p.idx)}) = r - 1]

NoNaNInPairs == \A p \in Entries(pairs) : p.Correlation # NaN

(* C6 as claimed: least is the first topN entries of S, most is the last   *)
(* topN entries of S in reverse                                            *)
C6_MostIsTailOfAscending ==
    (Ranked /\ NoNaNInPairs) =>
        LET n == MinOf(topN, Len(pairs))
        IN /\ least = SubSeq(AscendingS, 1, n)
           /\ most = [x \in 1..n |-> AscendingS[Len(pairs) - x + 1]]

(* ranked with topN below the number of pairs and pairs of equal value on  *)
(* both sides of the cut of each list                                      *)
C6_Witness ==
    /\ Ranked /\ NoNaNInPairs
    /\ topN < Len(pairs)
    /\ \E p \in Entries(most) : \E q \in Entries(pairs) \ Entries(most) :
          p.Correlation = q.Correlation
    /\ \E p \in Entries(least) : \E q \in Entries(pairs) \ Entries(least) :
          p.Correlation = q.Correlation

(* C7: no pair whose correlation is NaN is in either list *)
C7_NoNaNInLists ==
    Ranked => \A p \in Entries(least) \cup Entries(most) : p.Correlation # NaN

----------------------------------------------------------------------------
(* Properties of the plot script *)

Loaded == 1..(pl_i - 1)
NonSquare(i) == csv_files[i].rows # csv_files[i].cols
SkipCount(i) ==
    Cardinality({x \in 1..Len(stderr) : stderr[x] = [msg |-> "Skipping", file |-> Stem(i)]})

(* C8 as amended: a loaded matrix that is not square is skipped with one    *)
(* message on stderr and gets no image; the loop goes on to the other      *)
(* files, which get their image when square, and the run ends with status 0*)
C8_NonSquareIsSkipped ==
    /\ \A i \in Loaded : NonSquare(i) => (Stem(i) \notin images /\ SkipCount(i) = 1)
    /\ \A i \in Loaded : ~NonSquare(i) => (Stem(i) \in images /\ SkipCount(i) = 0)
    /\ (pl_pc = "exited" /\ Len(csv_files) > 0) => (exit_code = 0 /\ pl_i = Len(csv_files) + 1)

(* C8 as claimed: loading a matrix that is not square is fatal: no image    *)
(* for it, nothing is processed after it, and the run does not end with    *)
(* status 0                                                                *)
C8_NonSquareIsFatal ==
    \A i \in Loaded : NonSquare(i) =>
        /\ Stem(i) \notin images
        /\ pl_i = i + 1
        /\ ~(pl_pc = "exited" /\ exit_code = 0)

(* the run ended after a matrix that is not square and a square one after it *)
C8_Witness ==
    /\ pl_pc = "exited"
    /\ Len(csv_files) >= 2
    /\ NonSquare(1) /\ ~NonSquare(2)
    /\ Stem(2) \in images

====
